---------------------------- MODULE Spec2Model ----------------------------
(***************************************************************************)
(* The limit order book and the moving average of cpp_core                 *)
(* (trading::OrderBook and trading::SMACalculator, engine.cpp /            *)
(* engine.hpp) as state machines.                                          *)
(*                                                                         *)
(* Prices and quantities are C++ doubles in the source.  They are modelled *)
(* as integers (multiples of a tick and of a lot); on such values double   *)
(* subtraction, comparison and std::min are exact.  Inputs are finite:     *)
(* NaN and the infinities are not among the values offered to addOrder.    *)
(* The wall-clock timestamp of Order and Trade is read by no branch of the *)
(* code and is left out of the records.  The const queries (getBids,       *)
(* getAsks, getBestBid, getBestAsk) change no state and are not steps.     *)
(*                                                                         *)
(* State of the program: bids_, asks_, next_order_id_.  The remaining      *)
(* variables record the last public call and what it returned, so that     *)
(* properties of return values can be stated:                              *)
(*   lastOp  the last call: "init", "addOrder", "invalid_argument" (an     *)
(*           addOrder that threw), "matchOrders" or "reset"                *)
(*   ret     the order id returned by the last call, "" if it was not a    *)
(*           successful addOrder                                           *)
(*   trades  the vector returned by the last call, << >> if it was not     *)
(*           matchOrders                                                   *)
(*   issued  the ids returned by addOrder since construction or the last   *)
(*           reset, in call order                                          *)
(*   placed  id -> the order as addOrder built it, for the ids of issued   *)
(*   filled  id -> sum of the quantities of the returned trades naming id  *)
(*   pre     bids_, asks_ and next_order_id_ on entry to the last call     *)
(*           (the empty book after init)                                   *)
(*   reported  the trades returned by all matchOrders calls since          *)
(*           construction or the last reset                                *)
(*   pc      "idle" between public calls; "loop" while a matchOrders call  *)
(*           is inside its while loop, in the specification SpecLoop that  *)
(*           takes the loop one iteration at a time                        *)
(*                                                                         *)
(* State of one SMACalculator object: prices_, window_size_,               *)
(* current_size_, index_, running_sum_ (window_size_ = 0 and no slots      *)
(* while no object is constructed).  Its observations and running_sum_ are *)
(* doubles and running_sum_ is updated by a subtraction and an addition    *)
(* per call, each rounded to the nearest double, ties to even.  The model  *)
(* keeps that rounding on a significand of MantissaBits bits in place of   *)
(* the 53 of a double, so that the values at which an addition stops being *)
(* exact are small numbers.  Recorded with it:                             *)
(*   smaOp   the last SMACalculator call: "none", "construct",             *)
(*           "addPrice", "reset" or "invalid_argument" (a constructor or   *)
(*           an addPrice that threw)                                       *)
(*   fed     the observations addPrice accepted since construction or the  *)
(*           last reset, in call order                                     *)
(*   smaPre  the five members on entry to the last SMACalculator call      *)
(***************************************************************************)
EXTENDS Integers, Sequences, FiniteSets, TLC

VARIABLES bids_, asks_, next_order_id_, lastOp, ret, trades, issued, placed, filled, pre,
          reported, pc,
          prices_, window_size_, current_size_, index_, running_sum_, smaOp, fed, smaPre

\* the order book and what is recorded of its calls
bookVars == <<bids_, asks_, next_order_id_, lastOp, ret, trades, issued, placed, filled, pre,
              reported, pc>>

\* the moving average and what is recorded of its calls
smaVars == <<prices_, window_size_, current_size_, index_, running_sum_, smaOp, fed, smaPre>>

vars == <<bookVars, smaVars>>

(***************************************************************************)
(* Bounds of the model.                                                    *)
(***************************************************************************)
\* highest price offered to addOrder
MaxPrice == 2
\* highest quantity offered to addOrder
MaxQty == 2
\* successful addOrder calls between two resets
MaxOrders == 3
\* successful addOrder calls between two resets when every order is at one price
LevelOrders == 4
\* largest window size offered to the SMACalculator constructor
MaxWindow == 3
\* successful addPrice calls between construction or a reset and the next reset
MaxAdds == 4
\* bits of the significand of the modelled double
MantissaBits == 3

\* the doubles offered to addOrder; 0 is the non-positive one, which the
\* validation of addOrder treats like every negative value.  Quantities are
\* the smallest lot and the largest one: fills leave the amounts in between
Prices == 0..MaxPrice
Quantities == {0, 1, MaxQty}

\* the (price, quantity) pairs offered to addOrder: every pair of positive
\* values, and a pair for each way of being non-positive
Inputs ==
    {x \in Prices \X Quantities :
        \/ x[1] > 0 /\ x[2] > 0
        \/ x = <<0, MaxQty>>
        \/ x = <<MaxPrice, 0>>
        \/ x = <<0, 0>>}

\* enum class OrderSide
BUY == "BUY"
SELL == "SELL"
OrderSide == {BUY, SELL}

(***************************************************************************)
(* Containers.  A std::map<double, std::vector<Order>> is a function from  *)
(* the set of its keys to sequences of orders; a key may map to the empty  *)
(* sequence.                                                               *)
(***************************************************************************)
EmptyMap == [p \in {} |-> << >>]

\* wrong lookup: a fresh vector replaces the level
map_at_fresh(m, price) == << >>

\* std::map::operator[]: the mapped vector, default-constructed if absent
map_at(m, price) == IF price \in DOMAIN m THEN m[price] ELSE << >>

\* wrong reset: the side keeps its levels
clear_nothing(m) == m

\* std::map::clear
clear(m) == EmptyMap

\* std::map::erase(iterator)
map_erase(m, price) == [p \in DOMAIN m \ {price} |-> m[p]]

\* wrong insertion: the order goes to the head of the level
push_front(orders, order) == <<order>> \o orders

\* std::vector::push_back
push_back(orders, order) == Append(orders, order)

\* m[price].push_back(order)
map_push_back(m, price, order) ==
    [p \in DOMAIN m \cup {price} |->
        IF p = price THEN push_back(map_at(m, price), order) ELSE m[p]]

\* wrong comparator: bids_ ordered ascending like asks_
bids_begin_less(m) == CHOOSE p \in DOMAIN m : \A q \in DOMAIN m : p <= q

\* bids_.begin()->first under std::greater<double>: the highest key
bids_begin(m) == CHOOSE p \in DOMAIN m : \A q \in DOMAIN m : p >= q

\* asks_.begin()->first under std::less<double>: the lowest key
asks_begin(m) == CHOOSE p \in DOMAIN m : \A q \in DOMAIN m : p <= q

\* struct Order (timestamp left out)
Order(order_id, s, p, q) == [id |-> order_id, side |-> s, price |-> p, quantity |-> q]

\* OrderBook::generateOrderId: the string it returns for counter value n
generateOrderId(n) == "ORD" \o ToString(n)

\* wrong increment: the counter stays
next_id_stuck(n) == n

\* next_order_id_++ of generateOrderId
next_id(n) == n + 1

(***************************************************************************)
(* OrderBook::matchOrders, engine.cpp:84-154.                              *)
(***************************************************************************)
\* wrong test: the loop never stops on price
crosses_always(best_bid_price, best_ask_price) == TRUE

\* wrong test: equal prices do not match
crosses_strict(best_bid_price, best_ask_price) == best_bid_price > best_ask_price

\* line 97 negated: the loop goes on when bid >= ask
crosses(best_bid_price, best_ask_price) == ~(best_bid_price < best_ask_price)

\* wrong price: the trade executes at the bid's price
trade_price_bid(best_bid_price, best_ask_price) == best_bid_price

\* line 116: double trade_price = best_ask_price
trade_price_of(best_bid_price, best_ask_price) == best_ask_price

\* wrong quantity: the larger of the two
std_max(a, b) == IF a < b THEN b ELSE a

\* std::min(a, b): b if b < a, else a
std_min(a, b) == IF b < a THEN b ELSE a

\* struct Trade (timestamp left out)
Trade(bid_order, ask_order, price, quantity) ==
    [buy_order_id |-> bid_order.id, sell_order_id |-> ask_order.id,
     price |-> price, quantity |-> quantity]

\* wrong removal: the level of the last filled order stays in the map, empty
erase_level_never(m, key) == m

\* lines 140-142 and 147-149: if (orders.empty()) map.erase(level)
erase_level_if_empty(m, key) == IF m[key] = << >> THEN map_erase(m, key) ELSE m

\* wrong removal: a filled order stays at the head of its level
remove_never(m, key) == m

\* lines 138-143 and 145-150: the head order of level key, if its quantity is
\* exactly 0, is erased from the level, and the level from the map if empty
remove_if_filled(m, key) ==
    IF Head(m[key]).quantity = 0
    THEN erase_level_if_empty([m EXCEPT ![key] = Tail(@)], key)
    ELSE m

\* lines 134-135: order.quantity -= trade_quantity through the reference to
\* the front order of level key
reduce_front(m, key, trade_quantity) ==
    [m EXCEPT ![key] = <<[Head(@) EXCEPT !.quantity = @ - trade_quantity]>> \o Tail(@)]

\* lines 105-110: erase the best level of a side if its vector is empty
cleanup_level(m, key) == IF m[key] = << >> THEN map_erase(m, key) ELSE m

\* one pass through the body of the while loop of lines 88-151 from the state
\* (bids, asks, ts): done tells that the loop condition failed or the break
\* of line 98 was taken
matchIteration(bids, asks, ts) ==
    IF DOMAIN bids = {} \/ DOMAIN asks = {}
    THEN [bids |-> bids, asks |-> asks, trades |-> ts, done |-> TRUE]
    ELSE LET best_bid_price == bids_begin(bids)
             best_ask_price == asks_begin(asks)
         IN  IF ~crosses(best_bid_price, best_ask_price)
             THEN [bids |-> bids, asks |-> asks, trades |-> ts, done |-> TRUE]
             ELSE LET bid_orders == bids[best_bid_price]
                      ask_orders == asks[best_ask_price]
                  IN  IF bid_orders = << >> \/ ask_orders = << >>
                      THEN [bids |-> cleanup_level(bids, best_bid_price),
                            asks |-> cleanup_level(asks, best_ask_price),
                            trades |-> ts, done |-> FALSE]
                      ELSE LET bid_order == Head(bid_orders)
                               ask_order == Head(ask_orders)
                               trade_price == trade_price_of(best_bid_price, best_ask_price)
                               trade_quantity == std_min(bid_order.quantity, ask_order.quantity)
                               trade == Trade(bid_order, ask_order, trade_price, trade_quantity)
                           IN  [bids |-> remove_if_filled(
                                             reduce_front(bids, best_bid_price, trade_quantity),
                                             best_bid_price),
                                asks |-> remove_if_filled(
                                             reduce_front(asks, best_ask_price, trade_quantity),
                                             best_ask_price),
                                trades |-> Append(ts, trade), done |-> FALSE]

\* wrong loop: an if in place of the while, one pass per call
matchOnce(bids, asks, ts) ==
    LET r == matchIteration(bids, asks, ts)
    IN  [bids |-> r.bids, asks |-> r.asks, trades |-> r.trades]

\* the while loop of lines 88-151 from the state (bids, asks, ts): what
\* matchOrders leaves in bids_ and asks_ and the vector it returns
RECURSIVE matchLoop(_, _, _)
matchLoop(bids, asks, ts) ==
    LET r == matchIteration(bids, asks, ts)
    IN  IF r.done
        THEN [bids |-> r.bids, asks |-> r.asks, trades |-> r.trades]
        ELSE matchLoop(r.bids, r.asks, r.trades)

\* OrderBook::matchOrders on the book (bids, asks)
matchOrders(bids, asks) == matchLoop(bids, asks, << >>)

(***************************************************************************)
(* OrderBook::addOrder, engine.cpp:67-82.                                  *)
(***************************************************************************)
\* wrong validation: zero passes
is_invalid_negative(price, quantity) == price < 0 \/ quantity < 0

\* line 68: the condition of the throw
is_invalid(price, quantity) == price <= 0 \/ quantity <= 0

\* wrong insertion: the book is matched as soon as the order is in
insert_and_match(bids, asks, order) ==
    LET r == IF order.side = BUY
             THEN matchOrders(map_push_back(bids, order.price, order), asks)
             ELSE matchOrders(bids, map_push_back(asks, order.price, order))
    IN  [bids |-> r.bids, asks |-> r.asks]

\* lines 75-79: the order goes to the back of its price level on its side
insert_order(bids, asks, order) ==
    IF order.side = BUY
    THEN [bids |-> map_push_back(bids, order.price, order), asks |-> asks]
    ELSE [bids |-> bids, asks |-> map_push_back(asks, order.price, order)]

(***************************************************************************)
(* The queries, engine.cpp:156-192.                                        *)
(***************************************************************************)
\* wrong aggregation: only the front order of the level counts
front_quantity(orders) == IF orders = << >> THEN 0 ELSE Head(orders).quantity

\* lines 160-163 and 174-177: total_quantity += order.quantity over a level
RECURSIVE total_quantity(_)
total_quantity(orders) ==
    IF orders = << >> THEN 0
    ELSE Head(orders).quantity + total_quantity(Tail(orders))

\* OrderBook::getBids: one (price, total quantity) pair per level, in the
\* iteration order of bids_
RECURSIVE getBids(_)
getBids(bids) ==
    IF DOMAIN bids = {} THEN << >>
    ELSE LET price == bids_begin(bids)
         IN  <<<<price, total_quantity(bids[price])>>>> \o getBids(map_erase(bids, price))

\* OrderBook::getAsks: the same in the iteration order of asks_
RECURSIVE getAsks(_)
getAsks(asks) ==
    IF DOMAIN asks = {} THEN << >>
    ELSE LET price == asks_begin(asks)
         IN  <<<<price, total_quantity(asks[price])>>>> \o getAsks(map_erase(asks, price))

\* OrderBook::getBestBid
getBestBid(bids) == IF DOMAIN bids = {} THEN 0 ELSE bids_begin(bids)

\* OrderBook::getBestAsk
getBestAsk(asks) == IF DOMAIN asks = {} THEN 0 ELSE asks_begin(asks)

(***************************************************************************)
(* Bookkeeping of the recorded variables.                                  *)
(***************************************************************************)
\* sum of the quantities of the trades of ts that name id
RECURSIVE traded(_, _)
traded(ts, id) ==
    IF ts = << >> THEN 0
    ELSE (IF Head(ts).buy_order_id = id \/ Head(ts).sell_order_id = id
          THEN Head(ts).quantity ELSE 0) + traded(Tail(ts), id)

\* the book as a call finds it
Entry == [bids |-> bids_, asks |-> asks_, next |-> next_order_id_]

NoEntry == [bids |-> EmptyMap, asks |-> EmptyMap, next |-> 1]

(***************************************************************************)
(* SMACalculator.                                                          *)
(***************************************************************************)
RECURSIVE Pow2(_)
Pow2(n) == IF n = 0 THEN 1 ELSE 2 * Pow2(n - 1)

\* the spacing of the doubles around x >= 0, found from spacing u upwards:
\* values below 2^MantissaBits * u are u apart or closer
RECURSIVE ulp_of(_, _)
ulp_of(x, u) == IF x < Pow2(MantissaBits) * u THEN u ELSE ulp_of(x, 2 * u)

\* the double nearest to the whole number x >= 0, ties to the even significand
round_abs(x) ==
    LET u == ulp_of(x, 1)
        q == x \div u
        r == x % u
    IN  IF 2 * r < u THEN q * u
        ELSE IF 2 * r > u THEN (q + 1) * u
        ELSE IF q % 2 = 0 THEN q * u
        ELSE (q + 1) * u

\* the double nearest to the whole number x
double_round(x) == IF x < 0 THEN 0 - round_abs(0 - x) ELSE round_abs(x)

\* running_sum_ -= v (line 28) and running_sum_ += v (line 33) on doubles
double_sub(a, b) == double_round(a - b)
double_add(a, b) == double_round(a + b)

\* the observations offered to addPrice: a negative one, zero, small ones,
\* and the first power of two whose successor is not a double
Observations == {0 - 1, 0, 1, 2, Pow2(MantissaBits)}

\* the members of the object
SMAState(prices, window_size, current_size, index, running_sum) ==
    [prices_ |-> prices, window_size_ |-> window_size, current_size_ |-> current_size,
     index_ |-> index, running_sum_ |-> running_sum]

\* the members as a call finds them
SMAEntry == SMAState(prices_, window_size_, current_size_, index_, running_sum_)

\* line 16: the constructor's check
window_rejected(window_size) == window_size = 0

\* lines 12-15 and 19: the object a successful constructor leaves
sma_new(window_size) ==
    SMAState([i \in 0..(window_size - 1) |-> 0], window_size, 0, 0, 0)

\* wrong check: no price is refused
price_rejected_never(price) == FALSE

\* line 23: the check of addPrice
price_rejected(price) == price < 0

\* lines 27-42: addPrice past its check
sma_addPrice(st, price) ==
    LET evicted == IF st.current_size_ = st.window_size_
                   THEN double_sub(st.running_sum_, st.prices_[st.index_])
                   ELSE st.running_sum_
    IN  SMAState([st.prices_ EXCEPT ![st.index_] = price],
                 st.window_size_,
                 IF st.current_size_ < st.window_size_
                 THEN st.current_size_ + 1
                 ELSE st.current_size_,
                 (st.index_ + 1) % st.window_size_,
                 double_add(evicted, price))

\* wrong reset: the running sum is left as it was
sma_reset_keep_sum(st) ==
    SMAState([i \in DOMAIN st.prices_ |-> 0], st.window_size_, 0, 0, st.running_sum_)

\* lines 53-56: reset
sma_reset(st) ==
    SMAState([i \in DOMAIN st.prices_ |-> 0], st.window_size_, 0, 0, 0)

\* size()
size == current_size_

\* getSMA(): the quotient as the pair <<dividend, divisor>>, <<0, 1>> for the
\* 0.0 of line 47
getSMA == IF current_size_ = 0 THEN <<0, 1>> ELSE <<running_sum_, current_size_>>

\* the members take the values of st
SMAStore(st) ==
    /\ prices_' = st.prices_
    /\ window_size_' = st.window_size_
    /\ current_size_' = st.current_size_
    /\ index_' = st.index_
    /\ running_sum_' = st.running_sum_

\* SMACalculator(window_size), while no object exists; a constructor that
\* throws leaves no object
SMAConstruct(window_size) ==
    /\ window_size_ = 0
    /\ smaPre' = SMAEntry
    /\ fed' = << >>
    /\ IF window_rejected(window_size)
       THEN /\ smaOp' = "invalid_argument"
            /\ SMAStore(SMAEntry)
       ELSE /\ smaOp' = "construct"
            /\ SMAStore(sma_new(window_size))
    /\ UNCHANGED bookVars

\* addPrice(price) on the object
SMAAddPrice(price) ==
    /\ window_size_ >= 1
    /\ smaPre' = SMAEntry
    /\ IF price_rejected(price)
       THEN /\ smaOp' = "invalid_argument"
            /\ SMAStore(SMAEntry)
            /\ UNCHANGED fed
       ELSE /\ Len(fed) < MaxAdds
            /\ smaOp' = "addPrice"
            /\ SMAStore(sma_addPrice(SMAEntry, price))
            /\ fed' = Append(fed, price)
    /\ UNCHANGED bookVars

\* reset() on the object
SMAReset ==
    /\ window_size_ >= 1
    /\ smaPre' = SMAEntry
    /\ smaOp' = "reset"
    /\ SMAStore(sma_reset(SMAEntry))
    /\ fed' = << >>
    /\ UNCHANGED bookVars

(***************************************************************************)
(* The state machine: one action per public call.                          *)
(***************************************************************************)
Init ==
    /\ bids_ = EmptyMap
    /\ asks_ = EmptyMap
    /\ next_order_id_ = 1
    /\ lastOp = "init"
    /\ ret = ""
    /\ trades = << >>
    /\ issued = << >>
    /\ placed = EmptyMap
    /\ filled = EmptyMap
    /\ pre = NoEntry
    /\ reported = {}
    /\ pc = "idle"
    /\ prices_ = << >>
    /\ window_size_ = 0
    /\ current_size_ = 0
    /\ index_ = 0
    /\ running_sum_ = 0
    /\ smaOp = "none"
    /\ fed = << >>
    /\ smaPre = SMAEntry

\* addOrder while fewer than cap orders were accepted since the last reset
AddOrderUpTo(cap, side, price, quantity) ==
    /\ pc = "idle"
    /\ UNCHANGED <<reported, pc>>
    /\ UNCHANGED smaVars
    /\ IF is_invalid(price, quantity)
       THEN /\ lastOp' = "invalid_argument"
            /\ ret' = ""
            /\ trades' = << >>
            /\ pre' = Entry
            /\ UNCHANGED <<bids_, asks_, next_order_id_, issued, placed, filled>>
       ELSE /\ Len(issued) < cap
            /\ LET order_id == generateOrderId(next_order_id_)
                   order == Order(order_id, side, price, quantity)
                   r == insert_order(bids_, asks_, order)
               IN  /\ bids_' = r.bids
                   /\ asks_' = r.asks
                   /\ next_order_id_' = next_id(next_order_id_)
                   /\ lastOp' = "addOrder"
                   /\ ret' = order_id
                   /\ trades' = << >>
                   /\ issued' = Append(issued, order_id)
                   /\ placed' = [i \in DOMAIN placed \cup {order_id} |->
                                    IF i = order_id THEN order ELSE placed[i]]
                   /\ filled' = [i \in DOMAIN filled \cup {order_id} |->
                                    IF i = order_id THEN 0 ELSE filled[i]]
                   /\ pre' = Entry

AddOrder(side, price, quantity) == AddOrderUpTo(MaxOrders, side, price, quantity)

\* addOrder at the one price MaxPrice
AddOrderAtLevel(side, quantity) == AddOrderUpTo(LevelOrders, side, MaxPrice, quantity)

\* the set of the elements of a sequence
Range(seq) == {seq[i] : i \in 1..Len(seq)}

MatchOrders ==
    LET r == matchOrders(bids_, asks_)
    IN  /\ pc = "idle"
        /\ UNCHANGED pc
        /\ UNCHANGED smaVars
        /\ reported' = reported \cup Range(r.trades)
        /\ bids_' = r.bids
        /\ asks_' = r.asks
        /\ trades' = r.trades
        /\ lastOp' = "matchOrders"
        /\ ret' = ""
        /\ filled' = [i \in DOMAIN filled |-> filled[i] + traded(r.trades, i)]
        /\ pre' = Entry
        /\ UNCHANGED <<next_order_id_, issued, placed>>

\* OrderBook::reset, engine.cpp:194-198
Reset ==
    /\ pc = "idle"
    /\ UNCHANGED pc
    /\ UNCHANGED smaVars
    /\ reported' = {}
    /\ bids_' = clear(bids_)
    /\ asks_' = clear(asks_)
    /\ next_order_id_' = 1
    /\ lastOp' = "reset"
    /\ ret' = ""
    /\ trades' = << >>
    /\ issued' = << >>
    /\ placed' = EmptyMap
    /\ filled' = EmptyMap
    /\ pre' = Entry

Next ==
    \/ \E side \in OrderSide, x \in Inputs : AddOrder(side, x[1], x[2])
    \/ MatchOrders
    \/ Reset

Spec == Init /\ [][Next]_vars

\* matchOrders taken one loop iteration at a time: the call enters the loop
MatchBegin ==
    /\ pc = "idle"
    /\ pc' = "loop"
    /\ trades' = << >>
    /\ lastOp' = "matchOrders"
    /\ ret' = ""
    /\ pre' = Entry
    /\ UNCHANGED <<bids_, asks_, next_order_id_, issued, placed, filled, reported>>
    /\ UNCHANGED smaVars

\* one pass through the loop body; the pass that leaves the loop returns trades
MatchIterate ==
    /\ pc = "loop"
    /\ LET r == matchIteration(bids_, asks_, trades)
       IN  /\ bids_' = r.bids
           /\ asks_' = r.asks
           /\ trades' = r.trades
           /\ pc' = IF r.done THEN "idle" ELSE "loop"
           /\ filled' = IF r.done
                        THEN [i \in DOMAIN filled |-> filled[i] + traded(r.trades, i)]
                        ELSE filled
           /\ reported' = IF r.done THEN reported \cup Range(r.trades) ELSE reported
    /\ UNCHANGED <<next_order_id_, lastOp, ret, issued, placed, pre>>
    /\ UNCHANGED smaVars

NextLoop ==
    \/ \E side \in OrderSide, x \in {y \in Inputs : ~is_invalid(y[1], y[2])} :
           AddOrder(side, x[1], x[2])
    \/ MatchBegin
    \/ MatchIterate
    \/ Reset

SpecLoop == Init /\ [][NextLoop]_vars

\* the loop runs in the caller's thread without suspension: a pass that can
\* be taken is taken
SpecLoopFair == SpecLoop /\ WF_vars(MatchIterate)

\* the book driven with orders at a single price level
NextLevel ==
    \/ \E side \in OrderSide, quantity \in Quantities : AddOrderAtLevel(side, quantity)
    \/ MatchOrders
    \/ Reset

SpecLevel == Init /\ [][NextLevel]_vars

\* the calls on the SMACalculator object
NextSMA ==
    \/ \E window_size \in 0..MaxWindow : SMAConstruct(window_size)
    \/ \E price \in Observations : SMAAddPrice(price)
    \/ SMAReset

SpecSMA == Init /\ [][NextSMA]_vars

(***************************************************************************)
(* Vocabulary of the properties.  None of it uses the operators that model *)
(* the code: prices are compared and quantities are summed here again.     *)
(***************************************************************************)
MaxOf(S) == CHOOSE x \in S : \A y \in S : x >= y
MinOf(S) == CHOOSE x \in S : \A y \in S : x <= y

\* the orders stored in a side
OrdersOf(m) == UNION {{m[p][i] : i \in 1..Len(m[p])} : p \in DOMAIN m}

\* the orders the last call found in the book
PreOrders == OrdersOf(pre.bids) \cup OrdersOf(pre.asks)

\* both sides hold a level and the highest bid price is not below the lowest ask price
Crossed(bids, asks) ==
    /\ DOMAIN bids # {}
    /\ DOMAIN asks # {}
    /\ MaxOf(DOMAIN bids) >= MinOf(DOMAIN asks)

\* addOrder returned id a before it returned id b
AddedBefore(a, b) ==
    \E j, k \in 1..Len(issued) : j < k /\ issued[j] = a /\ issued[k] = b

\* what is left of order o, found in the book by the last matchOrders call,
\* just before the i-th trade of that call
RemainingBefore(o, i) == o.quantity - traded(SubSeq(trades, 1, i - 1), o.id)

\* the prices of the orders of a side that are still unfilled just before
\* the i-th trade of the last matchOrders call
LivePrices(m, i) == {o.price : o \in {x \in OrdersOf(m) : RemainingBefore(x, i) > 0}}

TradeIndices == 1..Len(trades)

(***************************************************************************)
(* C1.  Matching never produces a trade when best bid < best ask: in every *)
(* trade a matchOrders call returns, the limit price of the named buy      *)
(* order is at least the limit price of the named sell order; and a call   *)
(* that finds the highest bid price below the lowest ask price returns no  *)
(* trades and leaves the book as it found it.                              *)
(***************************************************************************)
C1_NoTradeBelowAsk ==
    lastOp = "matchOrders" =>
        /\ \A i \in TradeIndices :
               /\ trades[i].buy_order_id \in DOMAIN placed
               /\ trades[i].sell_order_id \in DOMAIN placed
               /\ placed[trades[i].buy_order_id].side = BUY
               /\ placed[trades[i].sell_order_id].side = SELL
               /\ placed[trades[i].buy_order_id].price
                      >= placed[trades[i].sell_order_id].price
        /\ (/\ DOMAIN pre.bids # {}
            /\ DOMAIN pre.asks # {}
            /\ MaxOf(DOMAIN pre.bids) < MinOf(DOMAIN pre.asks))
           => /\ trades = << >>
              /\ bids_ = pre.bids
              /\ asks_ = pre.asks
              /\ next_order_id_ = pre.next

\* a matchOrders call has returned from a book with bids and asks that do not cross
C1_Witness ==
    /\ lastOp = "matchOrders"
    /\ DOMAIN pre.bids # {}
    /\ DOMAIN pre.asks # {}
    /\ MaxOf(DOMAIN pre.bids) < MinOf(DOMAIN pre.asks)
    /\ trades = << >>

(***************************************************************************)
(* C2.  Every trade executes at the ask's price, never the bid's: the      *)
(* price of every returned trade is the limit price of its sell order,     *)
(* which is the lowest ask price in the book at the moment of the match,   *)
(* whichever of the two orders was submitted first and also when the bid's *)
(* price is strictly higher.                                               *)
(***************************************************************************)
C2_TradeAtAskPrice ==
    lastOp = "matchOrders" =>
        \A i \in TradeIndices :
            /\ trades[i].sell_order_id \in DOMAIN placed
            /\ trades[i].price = placed[trades[i].sell_order_id].price
            /\ LivePrices(pre.asks, i) # {}
            /\ trades[i].price = MinOf(LivePrices(pre.asks, i))

\* a trade between a resting bid and a later ask below the bid's price
C2_Witness ==
    /\ lastOp = "matchOrders"
    /\ \E i \in TradeIndices :
           /\ AddedBefore(trades[i].buy_order_id, trades[i].sell_order_id)
           /\ placed[trades[i].buy_order_id].price > trades[i].price

(***************************************************************************)
(* C3.  FIFO within a price level: of two orders on the same side at the   *)
(* same price, no trade names the one added later while the one added      *)
(* earlier is in the book with remaining quantity > 0.                     *)
(***************************************************************************)
C3_FifoWithinLevel ==
    lastOp = "matchOrders" =>
        \A i \in TradeIndices : \A A \in PreOrders : \A B \in PreOrders :
            (/\ A.side = B.side
             /\ A.price = B.price
             /\ AddedBefore(A.id, B.id)
             /\ B.id \in {trades[i].buy_order_id, trades[i].sell_order_id})
            => RemainingBefore(A, i) <= 0

\* three asks at one level: the call's first trade names the first of them,
\* its second trade the second, and the third is still untouched in the book
C3_Witness ==
    /\ lastOp = "matchOrders"
    /\ Len(trades) >= 2
    /\ \E p \in DOMAIN pre.asks :
           /\ Len(pre.asks[p]) >= 3
           /\ trades[1].sell_order_id = pre.asks[p][1].id
           /\ trades[2].sell_order_id = pre.asks[p][2].id
           /\ pre.asks[p][3] \in OrdersOf(asks_)

(***************************************************************************)
(* C4.  Price priority: every trade pairs an order at the highest bid      *)
(* price in the book at that moment with an order at the lowest ask price  *)
(* in the book at that moment.                                             *)
(***************************************************************************)
C4_PricePriority ==
    lastOp = "matchOrders" =>
        \A i \in TradeIndices :
            /\ trades[i].buy_order_id \in DOMAIN placed
            /\ trades[i].sell_order_id \in DOMAIN placed
            /\ LivePrices(pre.bids, i) # {}
            /\ LivePrices(pre.asks, i) # {}
            /\ placed[trades[i].buy_order_id].price = MaxOf(LivePrices(pre.bids, i))
            /\ placed[trades[i].sell_order_id].price = MinOf(LivePrices(pre.asks, i))
            /\ \A o \in PreOrders :
                   RemainingBefore(o, i) > 0 =>
                       /\ o.side = BUY => o.price <= placed[trades[i].buy_order_id].price
                       /\ o.side = SELL => o.price >= placed[trades[i].sell_order_id].price

\* a trade made while a second, lower bid level could have crossed too
C4_Witness ==
    /\ lastOp = "matchOrders"
    /\ trades # << >>
    /\ Cardinality(DOMAIN pre.bids) >= 2
    /\ MinOf(DOMAIN pre.bids) >= MinOf(DOMAIN pre.asks)
    /\ OrdersOf(bids_) # {}

(***************************************************************************)
(* C5.  Matching is pull-based: addOrder executes no trade.  After an      *)
(* addOrder every order already in the book keeps its remaining quantity   *)
(* and its position, the new order rests with its full quantity, and a     *)
(* crossed book stays crossed over any further addOrder calls.             *)
(***************************************************************************)
\* level for level, the orders of m are the first orders of n, unchanged
KeptIn(m, n) ==
    \A p \in DOMAIN m :
        /\ p \in DOMAIN n
        /\ Len(n[p]) >= Len(m[p])
        /\ SubSeq(n[p], 1, Len(m[p])) = m[p]

SweepCase(p1, p2, p3, q) ==
    /\ p1 < p2
    /\ p3 >= p2
    /\ DOMAIN pre.asks = {p1, p2}
    /\ DOMAIN pre.bids = {p3}
    /\ Len(pre.asks[p1]) = 1 /\ pre.asks[p1][1].quantity = q
    /\ Len(pre.asks[p2]) = 1 /\ pre.asks[p2][1].quantity = q
    /\ Len(pre.bids[p3]) = 1 /\ pre.bids[p3][1].quantity = 2 * q

C6_SweepLeavesUncrossed ==
    lastOp = "matchOrders" =>
        /\ \/ DOMAIN bids_ = {}
           \/ DOMAIN asks_ = {}
           \/ MaxOf(DOMAIN bids_) < MinOf(DOMAIN asks_)
        /\ \A i \in TradeIndices : \A j \in TradeIndices :
               i # j => <<trades[i].buy_order_id, trades[i].sell_order_id>>
                            # <<trades[j].buy_order_id, trades[j].sell_order_id>>
        /\ \A p1 \in 1..MaxPrice : \A p2 \in 1..MaxPrice : \A p3 \in 1..MaxPrice :
           \A q \in 1..MaxQty :
               SweepCase(p1, p2, p3, q) =>
                   /\ Len(trades) = 2
                   /\ trades[1] = [buy_order_id |-> pre.bids[p3][1].id,
                                   sell_order_id |-> pre.asks[p1][1].id,
                                   price |-> p1, quantity |-> q]
                   /\ trades[2] = [buy_order_id |-> pre.bids[p3][1].id,
                                   sell_order_id |-> pre.asks[p2][1].id,
                                   price |-> p2, quantity |-> q]
                   /\ bids_ = EmptyMap
                   /\ asks_ = EmptyMap

\* a call has swept two ask levels with one bid
C6_Witness ==
    /\ lastOp = "matchOrders"
    /\ \E p1 \in 1..MaxPrice, p2 \in 1..MaxPrice, p3 \in 1..MaxPrice, q \in 1..MaxQty :
           SweepCase(p1, p2, p3, q)
    /\ Len(trades) = 2

(***************************************************************************)
(* C7.  Two sell orders rest at one price, the first with quantity q1, the *)
(* second with quantity q2, and one buy order at that price has quantity q *)
(* with q1 < q < q1 + q2: a single matchOrders call returns exactly one    *)
(* trade, of quantity q1 against the first sell order.                     *)
(***************************************************************************)
\* the last call found sells q1 then q2 and one buy q at price p, and nothing else
TwoSellsOneBuy(p, q1, q2, q) ==
    /\ DOMAIN pre.asks = {p}
    /\ DOMAIN pre.bids = {p}
    /\ Len(pre.asks[p]) = 2
    /\ pre.asks[p][1].quantity = q1
    /\ pre.asks[p][2].quantity = q2
    /\ AddedBefore(pre.asks[p][1].id, pre.asks[p][2].id)
    /\ Len(pre.bids[p]) = 1
    /\ pre.bids[p][1].quantity = q
    /\ q1 < q
    /\ q < q1 + q2

C7_OneTradeForPartialSecondFill ==
    lastOp = "matchOrders" =>
        \A p \in 1..MaxPrice : \A q1 \in 1..MaxQty : \A q2 \in 1..MaxQty : \A q \in 1..MaxQty :
            TwoSellsOneBuy(p, q1, q2, q) =>
                /\ Len(trades) = 1
                /\ trades[1].quantity = q1
                /\ trades[1].sell_order_id = pre.asks[p][1].id

(***************************************************************************)
(* C8.  The quantities of the trades naming an order, summed over all      *)
(* matchOrders calls since the order was added, never exceed the quantity  *)
(* given to addOrder; the order rests in the book with the difference as   *)
(* its remaining quantity, and is out of the book as soon as the sum       *)
(* equals the original quantity.  A bid (p,2q) and an ask (p,q) give one   *)
(* trade of q at p, leave the bid with q and no asks.                      *)
(***************************************************************************)
\* the orders with this id stored in the book
Resting(id) == {o \in OrdersOf(bids_) \cup OrdersOf(asks_) : o.id = id}

\* the last call found one bid (p,2q) and one ask (p,q), and nothing else
PartialFillCase(p, q) ==
    /\ DOMAIN pre.bids = {p}
    /\ DOMAIN pre.asks = {p}
    /\ Len(pre.bids[p]) = 1 /\ pre.bids[p][1].quantity = 2 * q
    /\ Len(pre.asks[p]) = 1 /\ pre.asks[p][1].quantity = q

C8_FillsWithinOriginal ==
    /\ DOMAIN filled = DOMAIN placed
    /\ \A id \in DOMAIN placed :
           /\ filled[id] <= placed[id].quantity
           /\ filled[id] = placed[id].quantity => Resting(id) = {}
           /\ filled[id] < placed[id].quantity =>
                  Resting(id) = {[placed[id] EXCEPT !.quantity = placed[id].quantity - filled[id]]}
    /\ lastOp = "matchOrders" =>
           \A p \in 1..MaxPrice : \A q \in 1..MaxQty :
               PartialFillCase(p, q) =>
                   /\ Len(trades) = 1
                   /\ trades[1].quantity = q
                   /\ trades[1].price = p
                   /\ asks_ = EmptyMap
                   /\ bids_ = [x \in {p} |-> <<[pre.bids[p][1] EXCEPT !.quantity = q]>>]

\* an order filled over two calls: part of it by an earlier call, the rest by
\* the last one, and it has left the book
C8_Witness ==
    /\ lastOp = "matchOrders"
    /\ \E id \in DOMAIN placed :
           /\ filled[id] = placed[id].quantity
           /\ traded(trades, id) > 0
           /\ traded(trades, id) < filled[id]
           /\ Resting(id) = {}

(***************************************************************************)
(* C9.  Book structure: between public calls every order stored in bids_   *)
(* or asks_ has strictly positive remaining quantity and every price level *)
(* present in either map holds at least one order.                         *)
(***************************************************************************)
WellFormed(m) ==
    \A p \in DOMAIN m :
        /\ m[p] # << >>
        /\ \A i \in 1..Len(m[p]) : m[p][i].quantity > 0

C9_BookStructure == WellFormed(bids_) /\ WellFormed(asks_)

\* a call has emptied and removed an ask level and left a partly filled bid
C9_Witness ==
    /\ lastOp = "matchOrders"
    /\ DOMAIN pre.asks \ DOMAIN asks_ # {}
    /\ \E o \in OrdersOf(bids_) : filled[o.id] > 0

(***************************************************************************)
(* C10.  Order ids are sequential and unique until reset: the k-th         *)
(* successful addOrder since construction or the last reset returns "ORD"  *)
(* followed by k, whatever the side and however many orders matchOrders    *)
(* has removed since; no two orders added between two resets share an id.  *)
(***************************************************************************)
C10_SequentialIds ==
    /\ \A k \in 1..Len(issued) : issued[k] = "ORD" \o ToString(k)
    /\ \A j \in 1..Len(issued) : \A k \in 1..Len(issued) : j # k => issued[j] # issued[k]
    /\ lastOp = "addOrder" => Len(issued) >= 1 /\ ret = issued[Len(issued)]
    /\ \A o \in OrdersOf(bids_) \cup OrdersOf(asks_) : \E k \in 1..Len(issued) : o.id = issued[k]
    /\ \A o \in OrdersOf(bids_) \cup OrdersOf(asks_) :
       \A x \in OrdersOf(bids_) \cup OrdersOf(asks_) : o.id = x.id => o = x

\* the third addOrder, made after matchOrders removed the first two orders
C10_Witness ==
    /\ lastOp = "addOrder"
    /\ Len(issued) = 3
    /\ ret = "ORD3"
    /\ filled[issued[1]] = placed[issued[1]].quantity
    /\ filled[issued[2]] = placed[issued[2]].quantity

(***************************************************************************)
(* C11.  A non-positive price or quantity is always rejected and never     *)
(* alters the book: an addOrder that fails leaves bids_, asks_ and the id  *)
(* counter as it found them, no order with a non-positive price or         *)
(* quantity is ever accepted, and a rejected call consumes no id.          *)
(***************************************************************************)
C11_RejectedOrderChangesNothing ==
    /\ lastOp = "invalid_argument" =>
           /\ bids_ = pre.bids
           /\ asks_ = pre.asks
           /\ next_order_id_ = pre.next
           /\ ret = ""
    /\ \A id \in DOMAIN placed : placed[id].price > 0 /\ placed[id].quantity > 0
    /\ \A o \in OrdersOf(bids_) \cup OrdersOf(asks_) : o.price > 0
    /\ next_order_id_ = Len(issued) + 1

\* an addOrder has been rejected on a book with orders on both sides
C11_Witness ==
    /\ lastOp = "invalid_argument"
    /\ DOMAIN bids_ # {}
    /\ DOMAIN asks_ # {}
    /\ Len(issued) >= 2

(***************************************************************************)
(* C12.  reset returns the book to its initial state from any state: both  *)
(* sides are empty, getBids and getAsks are empty, getBestBid and          *)
(* getBestAsk are 0, matchOrders returns no trades, and the next addOrder  *)
(* returns "ORD1"; the program state is that of a new book, so every       *)
(* further sequence of calls behaves as on a new book.                     *)
(***************************************************************************)
C12_ResetRestoresInitialState ==
    lastOp = "reset" =>
        /\ bids_ = << >>
        /\ asks_ = << >>
        /\ next_order_id_ = 1
        /\ getBids(bids_) = << >>
        /\ getAsks(asks_) = << >>
        /\ getBestBid(bids_) = 0
        /\ getBestAsk(asks_) = 0
        /\ matchOrders(bids_, asks_).trades = << >>
        /\ generateOrderId(next_order_id_) = "ORD1"
        /\ issued = << >>

\* reset of a book that held orders on both sides and had issued three ids
C12_Witness ==
    /\ lastOp = "reset"
    /\ DOMAIN pre.bids # {}
    /\ DOMAIN pre.asks # {}
    /\ pre.next > 3

(***************************************************************************)
(* C16.  Depth snapshot: getBids returns one (price, quantity) pair per    *)
(* occupied bid level in strictly descending price order, getAsks one per  *)
(* occupied ask level in strictly ascending price order, the quantity      *)
(* being the sum of the remaining quantities of the orders resting at that *)
(* price; getBestBid and getBestAsk are the price of the first pair, or 0  *)
(* when the side is empty.                                                 *)
(***************************************************************************)
\* what is left of the orders with these ids: quantity given to addOrder
\* minus quantity traded since
RECURSIVE Unfilled(_)
Unfilled(ids) ==
    IF ids = {} THEN 0
    ELSE LET i == CHOOSE x \in ids : TRUE
         IN  (placed[i].quantity - filled[i]) + Unfilled(ids \ {i})

\* the ids of the orders accepted on a side at a price
AcceptedAt(side, price) ==
    {id \in DOMAIN placed : placed[id].side = side /\ placed[id].price = price}

Snapshot(depth, m, side) ==
    /\ Len(depth) = Cardinality(DOMAIN m)
    /\ {depth[i][1] : i \in 1..Len(depth)} = DOMAIN m
    /\ \A i \in 1..Len(depth) : depth[i][2] = Unfilled(AcceptedAt(side, depth[i][1]))
    /\ \A i \in 1..Len(depth) : depth[i][2] > 0

C16_DepthSnapshot ==
    /\ Snapshot(getBids(bids_), bids_, BUY)
    /\ Snapshot(getAsks(asks_), asks_, SELL)
    /\ \A i \in 1..Len(getBids(bids_)) : \A j \in 1..Len(getBids(bids_)) :
           i < j => getBids(bids_)[i][1] > getBids(bids_)[j][1]
    /\ \A i \in 1..Len(getAsks(asks_)) : \A j \in 1..Len(getAsks(asks_)) :
           i < j => getAsks(asks_)[i][1] < getAsks(asks_)[j][1]
    /\ getBestBid(bids_) = (IF getBids(bids_) = << >> THEN 0 ELSE getBids(bids_)[1][1])
    /\ getBestAsk(asks_) = (IF getAsks(asks_) = << >> THEN 0 ELSE getAsks(asks_)[1][1])

\* two bid levels, the front order of one of them partly filled, and no asks
C16_Witness ==
    /\ Len(getBids(bids_)) = 2
    /\ getAsks(asks_) = << >>
    /\ getBestAsk(asks_) = 0
    /\ \E p \in DOMAIN bids_ : filled[bids_[p][1].id] > 0

(***************************************************************************)
(* C17.  Effect and frame of a successful addOrder(side, price, quantity): *)
(* the new order is the last of the level price on side, created if        *)
(* absent; the depth of that side at that price grows by exactly quantity; *)
(* the opposite side, the other levels of the side and the orders already  *)
(* at the level are unchanged.                                             *)
(***************************************************************************)
\* the quantity a depth snapshot shows at a price, 0 if the price is not in it
DepthAt(depth, price) ==
    IF \E i \in 1..Len(depth) : depth[i][1] = price
    THEN depth[CHOOSE i \in 1..Len(depth) : depth[i][1] = price][2]
    ELSE 0

AppendedTo(before, after, o) ==
    /\ DOMAIN after = DOMAIN before \cup {o.price}
    /\ \A p \in DOMAIN before \ {o.price} : after[p] = before[p]
    /\ after[o.price] =
           (IF o.price \in DOMAIN before THEN before[o.price] ELSE << >>) \o <<o>>

C17_AddOrderEffect ==
    lastOp = "addOrder" =>
        /\ ret \in DOMAIN placed
        /\ placed[ret].id = ret
        /\ IF placed[ret].side = BUY
           THEN /\ AppendedTo(pre.bids, bids_, placed[ret])
                /\ asks_ = pre.asks
                /\ DepthAt(getBids(bids_), placed[ret].price)
                       = DepthAt(getBids(pre.bids), placed[ret].price) + placed[ret].quantity
                /\ getAsks(asks_) = getAsks(pre.asks)
           ELSE /\ AppendedTo(pre.asks, asks_, placed[ret])
                /\ bids_ = pre.bids
                /\ DepthAt(getAsks(asks_), placed[ret].price)
                       = DepthAt(getAsks(pre.asks), placed[ret].price) + placed[ret].quantity
                /\ getBids(bids_) = getBids(pre.bids)

\* an order added behind another one at its level, with the opposite side occupied
C17_Witness ==
    /\ lastOp = "addOrder"
    /\ placed[ret].side = SELL
    /\ placed[ret].price \in DOMAIN pre.asks
    /\ DOMAIN pre.bids # {}

(***************************************************************************)
(* C19.  Quantity conservation: every returned trade has a strictly        *)
(* positive quantity, the smaller of what is left of its buy order and of  *)
(* its sell order at that moment; over a matchOrders call the total        *)
(* remaining quantity of the bid side and that of the ask side both        *)
(* decrease by the sum of the quantities of the returned trades.           *)
(***************************************************************************)
RECURSIVE TotalRemaining(_)
TotalRemaining(orders) ==
    IF orders = {} THEN 0
    ELSE LET o == CHOOSE x \in orders : TRUE
         IN  o.quantity + TotalRemaining(orders \ {o})

RECURSIVE TradedQuantity(_)
TradedQuantity(ts) == IF ts = << >> THEN 0 ELSE Head(ts).quantity + TradedQuantity(Tail(ts))

\* the order with this id that the last call found in the book
PreOrder(id) == CHOOSE o \in PreOrders : o.id = id

C19_QuantityConservation ==
    lastOp = "matchOrders" =>
        /\ \A i \in TradeIndices :
               /\ trades[i].quantity > 0
               /\ \E o \in OrdersOf(pre.bids) : o.id = trades[i].buy_order_id
               /\ \E o \in OrdersOf(pre.asks) : o.id = trades[i].sell_order_id
               /\ trades[i].quantity =
                      MinOf({RemainingBefore(PreOrder(trades[i].buy_order_id), i),
                             RemainingBefore(PreOrder(trades[i].sell_order_id), i)})
        /\ TotalRemaining(OrdersOf(pre.bids)) - TotalRemaining(OrdersOf(bids_))
               = TradedQuantity(trades)
        /\ TotalRemaining(OrdersOf(pre.asks)) - TotalRemaining(OrdersOf(asks_))
               = TradedQuantity(trades)

\* a call with two trades that left an order partly filled in the book
C19_Witness ==
    /\ lastOp = "matchOrders"
    /\ Len(trades) >= 2
    /\ \E o \in OrdersOf(bids_) \cup OrdersOf(asks_) : filled[o.id] > 0

-----------------------------------------------------------------------------
(* C20: a matchOrders call made right after another matchOrders call       *)
(* returns no trade and leaves bids_, asks_ and next_order_id_ as they     *)
(* were; and no matchOrders call returns a trade between two orders that   *)
(* an earlier call since the last reset already reported as traded with    *)
(* each other.                                                             *)

\* some trade in ts is between the same two orders as t
SamePairIn(ts, t) ==
    \E e \in ts : /\ e.buy_order_id = t.buy_order_id
                  /\ e.sell_order_id = t.sell_order_id

C20_SecondMatchIsNoOp ==
    [][lastOp' = "matchOrders" =>
           /\ \A i \in 1..Len(trades') : ~SamePairIn(reported, trades'[i])
           /\ lastOp = "matchOrders" =>
                  /\ trades' = << >>
                  /\ bids_' = bids_
                  /\ asks_' = asks_
                  /\ next_order_id_' = next_order_id_]_vars

\* matchOrders returned nothing and changed nothing while the order accepted
\* last rests partly filled by an earlier call: no order came in between
C20_Witness ==
    /\ lastOp = "matchOrders"
    /\ trades = << >>
    /\ pre = Entry
    /\ reported # {}
    /\ issued # << >>
    /\ filled[issued[Len(issued)]] > 0
    /\ \E o \in OrdersOf(bids_) \cup OrdersOf(asks_) : o.id = issued[Len(issued)]

-----------------------------------------------------------------------------
(* C18: a matchOrders call terminates: every pass through the loop that    *)
(* stays in the loop removes an order or a level from the book, the loop   *)
(* once entered is left, and the call returns at most                      *)
(* (bid orders + ask orders - 1) trades when it found orders on both       *)
(* sides and none otherwise.                                               *)

\* the number of orders and the number of levels of a book
OrderCount(bids, asks) == Cardinality(OrdersOf(bids)) + Cardinality(OrdersOf(asks))
LevelCount(bids, asks) == Cardinality(DOMAIN bids) + Cardinality(DOMAIN asks)

\* the most trades a call may return from the book it found
TradeLimit ==
    IF OrdersOf(pre.bids) # {} /\ OrdersOf(pre.asks) # {}
    THEN OrderCount(pre.bids, pre.asks) - 1
    ELSE 0

C18_LoopPassRemoves ==
    (pc = "loop" /\ pc' = "loop") =>
        \/ OrderCount(bids_', asks_') < OrderCount(bids_, asks_)
        \/ LevelCount(bids_', asks_') < LevelCount(bids_, asks_)

C18_MatchTerminates ==
    /\ [](lastOp = "matchOrders" => Len(trades) <= TradeLimit)
    /\ [][C18_LoopPassRemoves]_vars
    /\ (pc = "loop") ~> (pc = "idle")

\* a call that has returned as many trades as the limit allows, more than one
C18_Witness ==
    /\ pc = "idle"
    /\ lastOp = "matchOrders"
    /\ Len(trades) >= 2
    /\ Len(trades) = TradeLimit

-----------------------------------------------------------------------------
(* C13: while an SMACalculator exists, with n the number of observations   *)
(* addPrice accepted since construction or the last reset and w the        *)
(* window size, size() is min(n, w), running_sum_ is the sum of the last   *)
(* min(n, w) accepted observations, and getSMA() is that sum divided by    *)
(* min(n, w), or 0.0 when n = 0.  Equality of doubles is read here with    *)
(* the tolerance the specification grants: running_sum_ may differ from    *)
(* the exact sum by the rounding of a sum of w doubles, that is by at most *)
(* w * 2^-MantissaBits of the exact sum.                                   *)

\* the last k elements of seq
LastK(seq, k) == SubSeq(seq, Len(seq) - k + 1, Len(seq))

\* the sum of the elements of seq in exact arithmetic
RECURSIVE SumSeq(_)
SumSeq(seq) == IF seq = << >> THEN 0 ELSE Head(seq) + SumSeq(Tail(seq))

\* x is the value exact >= 0 up to the rounding of a sum of the given number of terms
WithinRounding(x, exact, terms) ==
    LET diff == IF x < exact THEN exact - x ELSE x - exact
    IN  diff * Pow2(MantissaBits) <= terms * exact

C13_SumOfLastObservations ==
    window_size_ >= 1 =>
        LET n == Len(fed)
            k == MinOf({n, window_size_})
        IN  /\ size = k
            /\ WithinRounding(running_sum_, SumSeq(LastK(fed, k)), window_size_)
            /\ getSMA = IF n = 0 THEN <<0, 1>> ELSE <<running_sum_, k>>

-----------------------------------------------------------------------------
(* C14: no SMACalculator with window size 0 comes to exist, the            *)
(* constructor called with 0 throws invalid_argument; addPrice accepts no  *)
(* negative observation; and a call that threw invalid_argument left       *)
(* prices_, index_, current_size_, running_sum_ and window_size_ exactly   *)
(* as it found them, so that size() and getSMA() are as before it.         *)
C14_ArgumentErrors ==
    /\ window_size_ = 0 =>
           /\ smaOp \in {"none", "invalid_argument"}
           /\ prices_ = << >>
           /\ fed = << >>
    /\ \A i \in 1..Len(fed) : fed[i] >= 0
    /\ smaOp = "invalid_argument" => SMAEntry = smaPre

\* addPrice threw on a buffer that had wrapped around
C14_Witness ==
    /\ smaOp = "invalid_argument"
    /\ window_size_ >= 2
    /\ current_size_ = window_size_
    /\ Len(fed) > window_size_
    /\ running_sum_ > 0

-----------------------------------------------------------------------------
(* C15: after reset() every slot, current_size_, index_ and running_sum_   *)
(* are zero, size() is 0, getSMA() is 0.0 and the window size is the one   *)
(* before the call; and the members always are what a freshly constructed  *)
(* SMACalculator of the same window size holds after the observations      *)
(* accepted since construction or the last reset.                          *)

\* the object st after addPrice of each element of obs in turn
RECURSIVE Replayed(_, _)
Replayed(st, obs) ==
    IF obs = << >> THEN st ELSE Replayed(sma_addPrice(st, Head(obs)), Tail(obs))

C15_ResetIsFresh ==
    /\ smaOp = "reset" =>
           /\ DOMAIN prices_ = 0..(window_size_ - 1)
           /\ \A i \in DOMAIN prices_ : prices_[i] = 0
           /\ current_size_ = 0
           /\ index_ = 0
           /\ running_sum_ = 0
           /\ size = 0
           /\ getSMA = <<0, 1>>
           /\ window_size_ = smaPre.window_size_
    /\ window_size_ >= 1 => SMAEntry = Replayed(sma_new(window_size_), fed)

\* reset() called on a buffer that had wrapped around
C15_Witness ==
    /\ smaOp = "reset"
    /\ smaPre.window_size_ >= 2
    /\ smaPre.current_size_ = smaPre.window_size_
    /\ smaPre.index_ > 0
    /\ smaPre.running_sum_ > 0

-----------------------------------------------------------------------------
(* C21: the branch of matchOrders that erases an empty best level and      *)
(* continues is never taken: in every state, between calls and between     *)
(* two passes of the loop, no level of bids_ or asks_ holds an empty       *)
(* order sequence, so a pass that finds crossing best prices finds an      *)
(* order at the front of both best levels; and every pass that stays in    *)
(* the loop has appended a trade.                                          *)

\* no level of the side is an empty sequence
NoEmptyLevel(m) == \A p \in DOMAIN m : Len(m[p]) >= 1

C21_PassMatched ==
    (pc = "loop" /\ pc' = "loop") => Len(trades') = Len(trades) + 1

C21_CleanupNeverTaken ==
    /\ [](NoEmptyLevel(bids_) /\ NoEmptyLevel(asks_))
    /\ [](pc = "loop" /\ Crossed(bids_, asks_) =>
              /\ Len(bids_[MaxOf(DOMAIN bids_)]) >= 1
              /\ Len(asks_[MinOf(DOMAIN asks_)]) >= 1)
    /\ [][C21_PassMatched]_vars

\* inside the loop after a pass whose trade emptied a level, which was erased,
\* with best prices that still cross: the next pass reads both best levels
C21_Witness ==
    /\ pc = "loop"
    /\ Len(trades) >= 1
    /\ LevelCount(bids_, asks_) < LevelCount(pre.bids, pre.asks)
    /\ Crossed(bids_, asks_)

=============================================================================
